---- MODULE Spec2Model ----
(***************************************************************************)
(* picSwipe: the Google Photos service module (services/google-photos.ts)  *)
(* and the session operations of the auth hook.                            *)
(*                                                                         *)
(* The module-level token cache (cachedToken, tokenExpiry), the Firebase   *)
(* session (auth.currentUser), the clock (Date.now()) and the remote       *)
(* library are the state.  Every exported service function is an async     *)
(* function: a call advances from one await to the next, and calls that    *)
(* are in flight at the same time interleave at their awaits.  One action  *)
(* of the model is the code that runs between two awaits.                  *)
(***************************************************************************)
EXTENDS Integers, Sequences, FiniteSets, TLC

\* ---------------------------------------------------------------- values

\* null (cachedToken, tokenExpiry, auth.currentUser, an unset local)
Null == 0
\* the empty string: a token the identity provider may hand out, falsy in JS
EmptyString == -1
\* the cache validity window of getAccessToken, in milliseconds
TOKEN_TTL == 3600000

\* ---------------------------------------------------------------- bounds

\* sessions (sign-ins) in one behaviour
MaxSessions == 2
\* distinct tokens the identity provider hands out to one session
MaxSerial == 2
\* service calls started in one behaviour
MaxStarts == 2
\* service calls the page starts in one behaviour
MaxPageStarts == 3

\* the call slots: service calls that can be in flight at the same time
Calls == {1, 2}
\* the media items of the remote library
Ids == {"a", "b"}
\* HTTP statuses the remote answers with
Statuses == {200, 401, 403, 404, 500}
\* the instants at which something happens: the values Date.now() takes
Instants == {0, 1, TOKEN_TTL - 1, TOKEN_TTL, TOKEN_TTL + 1}
\* sign_in_provider claims of an ID token result; "none" is a missing claim
Providers == {"google.com", "password", "none"}

Users == 1..MaxSessions
\* the n-th token of session u
Token(u, n) == (u - 1) * MaxSerial + n
\* what an await on the identity provider can yield for session u
ProviderTokens(u) == {Token(u, n) : n \in 1..MaxSerial} \cup {EmptyString, Null}
TokenUser(t) == ((t - 1) \div MaxSerial) + 1

\* JS truthiness of a string | number | null
Truthy(v) == v # Null /\ v # EmptyString

VARIABLES
    currentUser,   \* auth.currentUser: Null or the signed-in session
    sessions,      \* number of sessions created so far
    now,           \* Date.now()
    cachedToken,   \* google-photos.ts:20
    tokenExpiry,   \* google-photos.ts:21
    remote,        \* the remote library: the flags of each media item
    call,          \* the service calls in flight, one record per slot
    starts,        \* number of service calls started so far
    mounted,       \* the Home component is mounted and has run its first effect
    user,          \* useAuth().user as the page last rendered it
    mediaItems,    \* useState<MediaItem[]>([])
    currentIndex,  \* useState(0)
    loading,       \* useState(false)
    handler        \* per call: the page function awaiting it, with the currentIndex of its closure

serviceVars == <<currentUser, sessions, now, cachedToken, tokenExpiry, remote, call, starts>>
pageVars == <<mounted, user, mediaItems, currentIndex, loading, handler>>
vars == <<currentUser, sessions, now, cachedToken, tokenExpiry, remote, call, starts,
          mounted, user, mediaItems, currentIndex, loading, handler>>

\* ---------------------------------------------------------------- requests

NoRequest ==
    [method |-> "", mediaItemId |-> "", mediaItemIds |-> {}, updateMask |-> "",
     value |-> FALSE, bearer |-> Null]

\* fetch('.../v1/mediaItems?pageSize=100', {headers})
ListRequest(token) ==
    [method |-> "GET", mediaItemId |-> "", mediaItemIds |-> {}, updateMask |-> "",
     value |-> FALSE, bearer |-> token]

\* Faulty variant of ArchiveRequest: the body copied from favoriteMediaItem,
\* with the mask and the field left at 'favorite'.
ArchiveRequest_wrongMask(mediaItemId, token) ==
    [method |-> "POST", mediaItemId |-> mediaItemId, mediaItemIds |-> {mediaItemId},
     updateMask |-> "favorite", value |-> TRUE, bearer |-> token]

\* fetch(`.../${mediaItemId}:batchModify`, {method: 'POST', body: {mediaItemIds, updateMask: 'archive', archive: true}})
ArchiveRequest(mediaItemId, token) ==
    [method |-> "POST", mediaItemId |-> mediaItemId, mediaItemIds |-> {mediaItemId},
     updateMask |-> "archive", value |-> TRUE, bearer |-> token]

\* Faulty variant of FavoriteRequest: the body names every item of the library.
FavoriteRequest_allIds(mediaItemId, token) ==
    [method |-> "POST", mediaItemId |-> mediaItemId, mediaItemIds |-> Ids,
     updateMask |-> "favorite", value |-> TRUE, bearer |-> token]

\* fetch(`.../${mediaItemId}:batchModify`, {method: 'POST', body: {mediaItemIds, updateMask: 'favorite', favorite: true}})
FavoriteRequest(mediaItemId, token) ==
    [method |-> "POST", mediaItemId |-> mediaItemId, mediaItemIds |-> {mediaItemId},
     updateMask |-> "favorite", value |-> TRUE, bearer |-> token]

\* fetch(`.../${mediaItemId}`, {method: 'DELETE'})
DeleteRequest(mediaItemId, token) ==
    [method |-> "DELETE", mediaItemId |-> mediaItemId, mediaItemIds |-> {},
     updateMask |-> "", value |-> FALSE, bearer |-> token]

RequestOf(op, mediaItemId, token) ==
    CASE op = "list"     -> ListRequest(token)
      [] op = "archive"  -> ArchiveRequest(mediaItemId, token)
      [] op = "favorite" -> FavoriteRequest(mediaItemId, token)
      [] op = "delete"   -> DeleteRequest(mediaItemId, token)

\* The remote library carrying out a request it accepts: a batchModify sets the
\* field named by updateMask on the items of mediaItemIds, a DELETE removes the
\* item of the path, a GET changes nothing.
ApplyRequest(r, req) ==
    CASE req.method = "POST" ->
           [i \in Ids |-> IF i \in req.mediaItemIds
                          THEN [r[i] EXCEPT ![req.updateMask] = req.value]
                          ELSE r[i]]
      [] req.method = "DELETE" ->
           [i \in Ids |-> IF i = req.mediaItemId
                          THEN [r[i] EXCEPT !["removed"] = TRUE]
                          ELSE r[i]]
      [] OTHER -> r

\* ---------------------------------------------------------------- list bodies

\* an item as the remote reports it in the body of mediaItems.list
RemoteItem(i) ==
    [id |-> i, baseUrl |-> "https://lh3.googleusercontent.com/" \o i,
     filename |-> i \o ".jpg", mimeType |-> "image/jpeg"]

\* a success body that has no mediaItems property; also the body of a call
\* that has read none
NoBody == [has |-> FALSE, mediaItems |-> <<>>]

\* the bodies of a success response: mediaItems absent, empty, or up to two
\* items in either order
Bodies ==
    {NoBody,
     [has |-> TRUE, mediaItems |-> <<>>],
     [has |-> TRUE, mediaItems |-> <<RemoteItem("a")>>],
     [has |-> TRUE, mediaItems |-> <<RemoteItem("a"), RemoteItem("b")>>],
     [has |-> TRUE, mediaItems |-> <<RemoteItem("b"), RemoteItem("a")>>]}

\* the size parameters appended to every baseUrl
SizeSuffix == "=w1024-h1024"

\* Faulty variant of ListResult: the items in reverse order.
ListResult_reversed(data) ==
    IF ~data.has
    THEN <<>>
    ELSE [k \in 1..Len(data.mediaItems) |->
            LET item == data.mediaItems[Len(data.mediaItems) + 1 - k]
            IN  [id |-> item.id, baseUrl |-> item.baseUrl \o SizeSuffix,
                 filename |-> item.filename, mimeType |-> item.mimeType]]

\* Faulty variant of ListResult: baseUrl returned as the remote sent it.
ListResult_noSuffix(data) ==
    IF ~data.has
    THEN <<>>
    ELSE [k \in 1..Len(data.mediaItems) |->
            LET item == data.mediaItems[k]
            IN  [id |-> item.id, baseUrl |-> item.baseUrl,
                 filename |-> item.filename, mimeType |-> item.mimeType]]

\* lines 96-105: `if (!data.mediaItems) return []`, else data.mediaItems.map(...)
\* (an empty array is truthy and maps to an empty array)
ListResult(data) ==
    IF ~data.has
    THEN <<>>
    ELSE [k \in 1..Len(data.mediaItems) |->
            LET item == data.mediaItems[k]
            IN  [id |-> item.id, baseUrl |-> item.baseUrl \o SizeSuffix,
                 filename |-> item.filename, mimeType |-> item.mimeType]]

\* ---------------------------------------------------------------- errors

NoError == ""
NotAuthenticatedMsg == "Not authenticated"
TokenFailedMsg == "Failed to get access token"
AuthExpiredMsg == "Authentication expired, please try again"
FetchFailedMsg == "Failed to fetch media items"
\* response.statusText of the statuses the remote answers with
StatusText(status) ==
    CASE status = 200 -> "200 OK"
      [] status = 401 -> "401 Unauthorized"
      [] status = 403 -> "403 Forbidden"
      [] status = 404 -> "404 Not Found"
      [] OTHER        -> "500 Internal Server Error"
\* `Failed to fetch media items: ${response.status} ${response.statusText}`
FetchFailedWith(status) == FetchFailedMsg \o ": " \o StatusText(status)
\* a failure of fetch itself, and of response.json() on a success response
NetworkErrorMsg == "TypeError: fetch failed"
BodyErrorMsg == "SyntaxError: invalid JSON"

ActionFailedMsg(op) ==
    CASE op = "archive"  -> "Failed to archive media item"
      [] op = "favorite" -> "Failed to favorite media item"
      [] op = "delete"   -> "Failed to delete media item"
      [] OTHER           -> FetchFailedMsg

\* ---------------------------------------------------------------- calls

Ops == {"list", "archive", "favorite", "delete"}
Actions == {"archive", "favorite", "delete"}

\* One call of a service function.  pc is the await the call stands at ("token":
\* getAccessToken has settled and the function has not resumed yet); user, token
\* and request are the locals; via is the last step of getAccessToken the call
\* took ("cache": it returned from the cache check); status and error are the
\* response and the outcome.
\* no page function awaits the call
NoHandler == [name |-> "", currentIndex |-> 0]

\* calls one run may start: MaxStarts when the service is driven directly,
\* MaxPageStarts under the page, whose scenarios (load, gesture, reload) take three
StartBound == IF mounted THEN MaxPageStarts ELSE MaxStarts

IdleCall ==
    [op |-> "", pc |-> "idle", user |-> Null, mediaItemId |-> "",
     token |-> Null, via |-> "", request |-> NoRequest,
     status |-> Null, error |-> NoError, body |-> NoBody, result |-> <<>>]

Init ==
    /\ currentUser = Null
    /\ sessions = 0
    /\ now = 0
    /\ cachedToken = Null
    /\ tokenExpiry = Null
    /\ remote = [i \in Ids |-> [favorite |-> FALSE, archive |-> FALSE, removed |-> FALSE]]
    /\ call = [c \in Calls |-> IdleCall]
    /\ starts = 0
    /\ mounted = FALSE
    /\ user = Null
    /\ mediaItems = <<>>
    /\ currentIndex = 0
    /\ loading = FALSE
    /\ handler = [c \in Calls |-> NoHandler]

\* ---------------------------------------------------------------- session

\* signInWithGoogle: signInWithPopup(auth, googleProvider) sets auth.currentUser
SignIn ==
    /\ currentUser = Null
    /\ sessions < MaxSessions
    /\ sessions' = sessions + 1
    /\ currentUser' = sessions + 1
    /\ UNCHANGED <<now, cachedToken, tokenExpiry, remote, call, starts>>

\* signOut: firebaseSignOut(auth) clears auth.currentUser, and nothing else
SignOut ==
    /\ currentUser # Null
    /\ currentUser' = Null
    /\ UNCHANGED <<sessions, now, cachedToken, tokenExpiry, remote, call, starts>>

\* the clock moves on to a later instant
Tick(t) ==
    /\ t > now
    /\ now' = t
    /\ UNCHANGED <<currentUser, sessions, cachedToken, tokenExpiry, remote, call, starts>>

\* ---------------------------------------------------------------- getAccessToken

\* Faulty variants of CacheValid: the comparison turned round, and the
\* comparison made inclusive.
CacheValid_inverted == Truthy(cachedToken) /\ Truthy(tokenExpiry) /\ now > tokenExpiry

CacheValid_inclusive == Truthy(cachedToken) /\ Truthy(tokenExpiry) /\ now <= tokenExpiry

\* line 28: the cache check
CacheValid == Truthy(cachedToken) /\ Truthy(tokenExpiry) /\ now < tokenExpiry

\* Faulty variants of StoreToken: the window counted from time 0 instead of
\* the acquisition time, and an expiry that is already set kept as it is.
StoreToken_fromZero(c, t) ==
    /\ cachedToken' = t
    /\ tokenExpiry' = TOKEN_TTL
    /\ call' = [call EXCEPT ![c].pc = "token", ![c].token = t]

StoreToken_tokenOnly(c, t) ==
    /\ cachedToken' = t
    /\ tokenExpiry' = IF tokenExpiry = Null THEN now + TOKEN_TTL ELSE tokenExpiry
    /\ call' = [call EXCEPT ![c].pc = "token", ![c].token = t]

\* lines 41-43 and 55-57: cache the acquired token for one hour and return it
StoreToken(c, t) ==
    /\ cachedToken' = t
    /\ tokenExpiry' = now + TOKEN_TTL
    /\ call' = [call EXCEPT ![c].pc = "token", ![c].token = t]

\* lines 61-64: the catch block logs and throws 'Failed to get access token'
TokenFailed(c) ==
    /\ call' = [call EXCEPT ![c].pc = "token", ![c].error = TokenFailedMsg]
    /\ UNCHANGED <<cachedToken, tokenExpiry>>

\* lines 48-50: reauthenticateWithPopup(user, googleProvider)
StartReauth(c) ==
    /\ call' = [call EXCEPT ![c].pc = "reauthenticateWithPopup",
                             ![c].via = "reauthenticateWithPopup"]
    /\ UNCHANGED <<cachedToken, tokenExpiry>>

\* lines 24-34: a service function calls getAccessToken, which runs up to its
\* first await: no user, a cache hit, or user.getIdTokenResult(true)
getAccessToken(c, op, mediaItemId) ==
    /\ call[c].pc \in {"idle", "done"}
    /\ starts < StartBound
    /\ starts' = starts + 1
    /\ LET started == [IdleCall EXCEPT !.op = op, !.mediaItemId = mediaItemId,
                                       !.user = currentUser]
       IN  IF currentUser = Null
           THEN call' = [call EXCEPT ![c] = [started EXCEPT !.pc = "token"]]
           ELSE IF CacheValid
           THEN call' = [call EXCEPT ![c] = [started EXCEPT !.pc = "token",
                                                            !.token = cachedToken,
                                                            !.via = "cache"]]
           ELSE call' = [call EXCEPT ![c] = [started EXCEPT !.pc = "getIdTokenResult",
                                                            !.via = "getIdTokenResult"]]
    /\ UNCHANGED <<currentUser, sessions, now, cachedToken, tokenExpiry,
                   remote>>

\* lines 34-39 and 48-50: getIdTokenResult(true) resolved with the claims
IdTokenResultResolved(c, provider) ==
    /\ call[c].pc = "getIdTokenResult"
    /\ IF provider = "google.com"
       THEN /\ call' = [call EXCEPT ![c].pc = "getIdToken", ![c].via = "getIdToken"]
            /\ UNCHANGED <<cachedToken, tokenExpiry>>
       ELSE StartReauth(c)
    /\ UNCHANGED <<currentUser, sessions, now, remote, starts>>

\* lines 34, 61-64: getIdTokenResult(true) rejected
IdTokenResultRejected(c) ==
    /\ call[c].pc = "getIdTokenResult"
    /\ TokenFailed(c)
    /\ UNCHANGED <<currentUser, sessions, now, remote, starts>>

\* lines 39-50: getIdToken() resolved with the credential
IdTokenResolved(c, credential) ==
    /\ call[c].pc = "getIdToken"
    /\ IF Truthy(credential) THEN StoreToken(c, credential) ELSE StartReauth(c)
    /\ UNCHANGED <<currentUser, sessions, now, remote, starts>>

\* lines 39, 61-64: getIdToken() rejected
IdTokenRejected(c) ==
    /\ call[c].pc = "getIdToken"
    /\ TokenFailed(c)
    /\ UNCHANGED <<currentUser, sessions, now, remote, starts>>

\* lines 50-60: reauthenticateWithPopup resolved; accessToken is
\* GoogleAuthProvider.credentialFromResult(userCred)?.accessToken
ReauthResolved(c, accessToken) ==
    /\ call[c].pc = "reauthenticateWithPopup"
    /\ IF Truthy(accessToken) THEN StoreToken(c, accessToken) ELSE TokenFailed(c)
    /\ UNCHANGED <<currentUser, sessions, now, remote, starts>>

\* lines 50, 61-64: reauthenticateWithPopup rejected
ReauthRejected(c) ==
    /\ call[c].pc = "reauthenticateWithPopup"
    /\ TokenFailed(c)
    /\ UNCHANGED <<currentUser, sessions, now, remote, starts>>

\* ---------------------------------------------------------------- service functions

\* listMediaItems(), line 72
listMediaItems(c) == getAccessToken(c, "list", "")

\* archiveMediaItem(mediaItemId), line 118
archiveMediaItem(c, mediaItemId) == getAccessToken(c, "archive", mediaItemId)

\* favoriteMediaItem(mediaItemId), line 152
favoriteMediaItem(c, mediaItemId) == getAccessToken(c, "favorite", mediaItemId)

\* deleteMediaItem(mediaItemId), line 186
deleteMediaItem(c, mediaItemId) == getAccessToken(c, "delete", mediaItemId)

\* a call settles: resolved when error = NoError, rejected with error otherwise
Settle(c, error) ==
    call' = [call EXCEPT ![c].pc = "done", ![c].error = error]

\* Faulty variant of TokenSettled: `await getAccessToken()` moved into the try
\* block, so that the catch block rewraps its rejection.
TokenSettled_rewrap(c) ==
    /\ call[c].pc = "token"
    /\ IF call[c].error # NoError
       THEN Settle(c, ActionFailedMsg(call[c].op))
       ELSE IF ~Truthy(call[c].token)
       THEN Settle(c, NotAuthenticatedMsg)
       ELSE call' = [call EXCEPT ![c].pc = "fetch",
                                 ![c].request = RequestOf(call[c].op, call[c].mediaItemId,
                                                          call[c].token)]
    /\ UNCHANGED <<currentUser, sessions, now, cachedToken, tokenExpiry,
                   remote, starts>>

\* lines 72-76 (118-122, 152-156, 186-190): `await getAccessToken()` settles.
\* The await stands before the try block: a rejection leaves the function as
\* it is; a falsy token throws 'Not authenticated'; otherwise fetch is called.
TokenSettled(c) ==
    /\ call[c].pc = "token"
    /\ IF call[c].error # NoError
       THEN Settle(c, call[c].error)
       ELSE IF ~Truthy(call[c].token)
       THEN Settle(c, NotAuthenticatedMsg)
       ELSE call' = [call EXCEPT ![c].pc = "fetch",
                                 ![c].request = RequestOf(call[c].op, call[c].mediaItemId,
                                                          call[c].token)]
    /\ UNCHANGED <<currentUser, sessions, now, cachedToken, tokenExpiry,
                   remote, starts>>

\* response.ok
Ok(status) == status >= 200 /\ status <= 299

\* Faulty variant of ListResponse: a 401 handled like every other failure,
\* without clearing the cache.
ListResponse_keepCache(c, status) ==
    /\ IF Ok(status)
       THEN call' = [call EXCEPT ![c].pc = "json", ![c].status = status]
       ELSE call' = [call EXCEPT ![c].pc = "errorJson", ![c].status = status]
    /\ UNCHANGED <<cachedToken, tokenExpiry>>

\* Faulty variant of ListResponse: the cache cleared on every failure status.
ListResponse_clearAlways(c, status) ==
    IF Ok(status)
    THEN /\ call' = [call EXCEPT ![c].pc = "json", ![c].status = status]
         /\ UNCHANGED <<cachedToken, tokenExpiry>>
    ELSE /\ cachedToken' = Null
         /\ tokenExpiry' = Null
         /\ call' = IF status = 401
                    THEN [call EXCEPT ![c].pc = "done", ![c].status = status,
                                      ![c].error = AuthExpiredMsg]
                    ELSE [call EXCEPT ![c].pc = "errorJson", ![c].status = status]

\* Faulty variant of ListResponse: a 401 clears cachedToken and leaves tokenExpiry.
ListResponse_clearTokenOnly(c, status) ==
    IF Ok(status)
    THEN /\ call' = [call EXCEPT ![c].pc = "json", ![c].status = status]
         /\ UNCHANGED <<cachedToken, tokenExpiry>>
    ELSE IF status = 401
    THEN /\ cachedToken' = Null
         /\ tokenExpiry' = tokenExpiry
         /\ call' = [call EXCEPT ![c].pc = "done", ![c].status = status,
                                 ![c].error = AuthExpiredMsg]
    ELSE /\ call' = [call EXCEPT ![c].pc = "errorJson", ![c].status = status]
         /\ UNCHANGED <<cachedToken, tokenExpiry>>

\* lines 83-95 of listMediaItems: the response of the GET
ListResponse(c, status) ==
    IF Ok(status)
    THEN /\ call' = [call EXCEPT ![c].pc = "json", ![c].status = status]
         /\ UNCHANGED <<cachedToken, tokenExpiry>>
    ELSE IF status = 401
    THEN /\ cachedToken' = Null
         /\ tokenExpiry' = Null
         /\ call' = [call EXCEPT ![c].pc = "done", ![c].status = status,
                                 ![c].error = AuthExpiredMsg]
    ELSE /\ call' = [call EXCEPT ![c].pc = "errorJson", ![c].status = status]
         /\ UNCHANGED <<cachedToken, tokenExpiry>>

\* Faulty variant of ActionResponse: response.ok is not looked at.
ActionResponse_noOkCheck(c, status) ==
    /\ call' = [call EXCEPT ![c].pc = "done", ![c].status = status]
    /\ UNCHANGED <<cachedToken, tokenExpiry>>

\* lines 135-136 (169-170, 198-199): the response of a mutation
ActionResponse(c, status) ==
    /\ IF Ok(status)
       THEN call' = [call EXCEPT ![c].pc = "done", ![c].status = status]
       ELSE call' = [call EXCEPT ![c].pc = "errorJson", ![c].status = status]
    /\ UNCHANGED <<cachedToken, tokenExpiry>>

\* fetch resolved with a response: the remote carried the request out when it
\* answers with a success status, and not otherwise
FetchResolved(c, status) ==
    /\ call[c].pc = "fetch"
    /\ remote' = IF Ok(status) THEN ApplyRequest(remote, call[c].request) ELSE remote
    /\ IF call[c].op = "list" THEN ListResponse(c, status) ELSE ActionResponse(c, status)
    /\ UNCHANGED <<currentUser, sessions, now, starts>>

\* Faulty variant of FetchRejected: the catch block of a mutation rethrows the
\* error it caught, as the catch block of listMediaItems does.
FetchRejected_rethrow(c, carriedOut) ==
    /\ call[c].pc = "fetch"
    /\ remote' = IF carriedOut THEN ApplyRequest(remote, call[c].request) ELSE remote
    /\ Settle(c, NetworkErrorMsg)
    /\ UNCHANGED <<currentUser, sessions, now, cachedToken, tokenExpiry,
                   starts>>

\* fetch rejected (network-level failure); the request was lost, or the
\* response was.  lines 106-109: list rethrows the error; lines 140-143
\* (174-177, 203-206): a mutation throws its own message
FetchRejected(c, carriedOut) ==
    /\ call[c].pc = "fetch"
    /\ remote' = IF carriedOut THEN ApplyRequest(remote, call[c].request) ELSE remote
    /\ Settle(c, IF call[c].op = "list" THEN NetworkErrorMsg ELSE ActionFailedMsg(call[c].op))
    /\ UNCHANGED <<currentUser, sessions, now, cachedToken, tokenExpiry,
                   starts>>

\* lines 90-92 (136-138, 170-172, 199-201): `await response.json().catch(() => ({}))`
\* settled on a non-success response; it never rejects
ErrorJsonSettled(c) ==
    /\ call[c].pc = "errorJson"
    /\ Settle(c, IF call[c].op = "list" THEN FetchFailedWith(call[c].status)
                 ELSE ActionFailedMsg(call[c].op))
    /\ UNCHANGED <<currentUser, sessions, now, cachedToken, tokenExpiry,
                   remote, starts>>

\* lines 95-105: `await response.json()` resolved on a success response
JsonResolved(c, data) ==
    /\ call[c].pc = "json"
    /\ call' = [call EXCEPT ![c].pc = "done", ![c].error = NoError,
                            ![c].body = data, ![c].result = ListResult(data)]
    /\ UNCHANGED <<currentUser, sessions, now, cachedToken, tokenExpiry,
                   remote, starts>>

\* lines 95, 106-109: `await response.json()` rejected; list rethrows the error
JsonRejected(c) ==
    /\ call[c].pc = "json"
    /\ Settle(c, BodyErrorMsg)
    /\ UNCHANGED <<currentUser, sessions, now, cachedToken, tokenExpiry,
                   remote, starts>>

\* ---------------------------------------------------------------- specification

\* the calls of the page, which starts one at a time
Serial == {1}
\* the statuses that decide what becomes of the cache: success and 401
CacheStatuses == {200, 401}

\* The service as the page drives it: one call at a time, every function,
\* every item, every outcome of the remote.
Next ==
    \/ SignIn /\ UNCHANGED pageVars
    \/ SignOut /\ UNCHANGED pageVars
    \/ \E t \in Instants : Tick(t) /\ UNCHANGED pageVars
    \/ \E c \in Serial : listMediaItems(c) /\ UNCHANGED pageVars
    \/ \E c \in Serial, i \in Ids : archiveMediaItem(c, i) /\ UNCHANGED pageVars
    \/ \E c \in Serial, i \in Ids : favoriteMediaItem(c, i) /\ UNCHANGED pageVars
    \/ \E c \in Serial, i \in Ids : deleteMediaItem(c, i) /\ UNCHANGED pageVars
    \/ \E c \in Serial, p \in Providers : IdTokenResultResolved(c, p) /\ UNCHANGED pageVars
    \/ \E c \in Serial : IdTokenResultRejected(c) /\ UNCHANGED pageVars
    \/ \E c \in Serial : \E t \in ProviderTokens(call[c].user) : IdTokenResolved(c, t) /\ UNCHANGED pageVars
    \/ \E c \in Serial : IdTokenRejected(c) /\ UNCHANGED pageVars
    \/ \E c \in Serial : \E t \in ProviderTokens(call[c].user) : ReauthResolved(c, t) /\ UNCHANGED pageVars
    \/ \E c \in Serial : ReauthRejected(c) /\ UNCHANGED pageVars
    \/ \E c \in Serial : TokenSettled(c) /\ UNCHANGED pageVars
    \/ \E c \in Serial, s \in Statuses : FetchResolved(c, s) /\ UNCHANGED pageVars
    \/ \E c \in Serial, b \in BOOLEAN : FetchRejected(c, b) /\ UNCHANGED pageVars
    \/ \E c \in Serial : ErrorJsonSettled(c) /\ UNCHANGED pageVars
    \/ \E c \in Serial, data \in Bodies : JsonResolved(c, data) /\ UNCHANGED pageVars
    \/ \E c \in Serial : JsonRejected(c) /\ UNCHANGED pageVars

Spec == Init /\ [][Next]_vars

\* The credential cache under calls that overlap: two calls of listMediaItems,
\* the function that also clears the cache, interleaved at their awaits.
NextCache ==
    \/ SignIn /\ UNCHANGED pageVars
    \/ SignOut /\ UNCHANGED pageVars
    \/ \E t \in Instants : Tick(t) /\ UNCHANGED pageVars
    \/ \E c \in Calls : listMediaItems(c) /\ UNCHANGED pageVars
    \/ \E c \in Calls, p \in Providers : IdTokenResultResolved(c, p) /\ UNCHANGED pageVars
    \/ \E c \in Calls : IdTokenResultRejected(c) /\ UNCHANGED pageVars
    \/ \E c \in Calls : \E t \in ProviderTokens(call[c].user) : IdTokenResolved(c, t) /\ UNCHANGED pageVars
    \/ \E c \in Calls : IdTokenRejected(c) /\ UNCHANGED pageVars
    \/ \E c \in Calls : \E t \in ProviderTokens(call[c].user) : ReauthResolved(c, t) /\ UNCHANGED pageVars
    \/ \E c \in Calls : ReauthRejected(c) /\ UNCHANGED pageVars
    \/ \E c \in Calls : TokenSettled(c) /\ UNCHANGED pageVars
    \/ \E c \in Calls, s \in CacheStatuses : FetchResolved(c, s) /\ UNCHANGED pageVars
    \/ \E c \in Calls : JsonResolved(c, NoBody) /\ UNCHANGED pageVars

SpecCache == Init /\ [][NextCache]_vars

\* ---------------------------------------------------------------- page

\* what the remote answers to the page's calls, and the lists it reports
PageStatuses == {200, 401, 500}
PageBodies == Bodies

\* a page function awaits the call of slot c
InFlight(c) == handler[c] # NoHandler

\* the card with the gesture handlers and the buttons is rendered (lines 135-143)
CardRendered ==
    /\ mounted
    /\ user # Null
    /\ ~loading
    /\ currentIndex < Len(mediaItems)

\* mediaItems[currentIndex].id of the render the handler was made in
CurrentId == mediaItems[currentIndex + 1].id

\* items.filter((_, index) => index !== currentIndex), indexes counted from 0
RemoveAt(items, index) ==
    IF index >= Len(items)
    THEN items
    ELSE [k \in 1..(Len(items) - 1) |-> IF k <= index THEN items[k] ELSE items[k + 1]]

\* Home mounts: the first run of the effect, without a user, sets loading and
\* clears it (lines 26-47)
Mount ==
    /\ ~mounted
    /\ mounted' = TRUE
    /\ loading' = FALSE
    /\ UNCHANGED <<user, mediaItems, currentIndex, handler>>
    /\ UNCHANGED serviceVars

\* line 210: the Login button, shown when the page has no user
LoginClicked ==
    /\ mounted
    /\ user = Null
    /\ SignIn
    /\ UNCHANGED pageVars

\* line 205: the Sign Out button, shown whenever the page has a user
SignOutClicked ==
    /\ mounted
    /\ user # Null
    /\ user = currentUser
    /\ SignOut
    /\ UNCHANGED pageVars

\* lines 26-47 after onAuthStateChanged gave the page a user: the effect sets
\* loading and awaits listMediaItems()
fetchMediaItems(c) ==
    /\ mounted
    /\ user # currentUser
    /\ currentUser # Null
    /\ ~InFlight(c)
    /\ user' = currentUser
    /\ loading' = TRUE
    /\ handler' = [handler EXCEPT ![c] = [name |-> "fetchMediaItems",
                                          currentIndex |-> currentIndex]]
    /\ listMediaItems(c)
    /\ UNCHANGED <<mounted, mediaItems, currentIndex>>

\* lines 26-47 after onAuthStateChanged took the user away: `if (user)` fails,
\* nothing is awaited, finally clears loading; mediaItems stay
fetchMediaItemsSignedOut ==
    /\ mounted
    /\ user # currentUser
    /\ currentUser = Null
    /\ user' = Null
    /\ loading' = FALSE
    /\ UNCHANGED <<mounted, mediaItems, currentIndex, handler>>
    /\ UNCHANGED serviceVars

\* the start of a gesture handler, up to its await (lines 59-62, 88-91, 109-112)
StartGesture(c, name) ==
    /\ CardRendered
    /\ ~loading
    /\ ~InFlight(c)
    /\ loading' = TRUE
    /\ handler' = [handler EXCEPT ![c] = [name |-> name, currentIndex |-> currentIndex]]
    /\ UNCHANGED <<mounted, user, mediaItems, currentIndex>>

\* lines 58-62
handleSwipeLeft(c) ==
    /\ StartGesture(c, "handleSwipeLeft")
    /\ deleteMediaItem(c, CurrentId)

\* lines 87-91
handleSwipeUp(c) ==
    /\ StartGesture(c, "handleSwipeUp")
    /\ favoriteMediaItem(c, CurrentId)

\* lines 108-112
handleSwipeDown(c) ==
    /\ StartGesture(c, "handleSwipeDown")
    /\ archiveMediaItem(c, CurrentId)

\* Faulty variant of handleSwipeRight: after the last item the first.
handleSwipeRight_wrap ==
    /\ CardRendered
    /\ currentIndex' = IF currentIndex < Len(mediaItems) - 1 THEN currentIndex + 1 ELSE 0
    /\ UNCHANGED <<mounted, user, mediaItems, loading, handler>>
    /\ UNCHANGED serviceVars

\* lines 81-85
handleSwipeRight ==
    /\ CardRendered
    /\ currentIndex' = IF currentIndex < Len(mediaItems) - 1
                       THEN currentIndex + 1
                       ELSE currentIndex
    /\ UNCHANGED <<mounted, user, mediaItems, loading, handler>>
    /\ UNCHANGED serviceVars

\* the rest of the page function awaiting call c, run when the call settles:
\* setMediaItems(items) of the effect (line 32), the filter of handleSwipeLeft
\* (line 68), nothing on a rejection, and setLoading(false) in every finally
Resumed(c) ==
    /\ handler' = [handler EXCEPT ![c] = NoHandler]
    /\ loading' = FALSE
    /\ mediaItems' =
        IF call'[c].error # NoError THEN mediaItems
        ELSE IF handler[c].name = "fetchMediaItems" THEN call'[c].result
        ELSE IF handler[c].name = "handleSwipeLeft"
        THEN RemoveAt(mediaItems, handler[c].currentIndex)
        ELSE mediaItems
    /\ UNCHANGED <<mounted, user, currentIndex>>

\* a step of call c as the page sees it: nothing until the call settles
Awaited(c) ==
    IF call'[c].pc = "done" THEN Resumed(c) ELSE UNCHANGED pageVars

\* The page: sign-in and sign-out, the effect, the gestures, and the calls they
\* await, two of which can be in flight.
NextPage ==
    \/ Mount
    \/ LoginClicked
    \/ SignOutClicked
    \/ \E c \in Calls : fetchMediaItems(c)
    \/ fetchMediaItemsSignedOut
    \/ \E c \in Calls : handleSwipeLeft(c)
    \/ \E c \in Calls : handleSwipeUp(c)
    \/ \E c \in Calls : handleSwipeDown(c)
    \/ handleSwipeRight
    \/ \E c \in Calls : IdTokenResultResolved(c, "google.com") /\ Awaited(c)
    \/ \E c \in Calls : IdTokenResolved(c, Token(call[c].user, 1)) /\ Awaited(c)
    \/ \E c \in Calls : TokenSettled(c) /\ Awaited(c)
    \/ \E c \in Calls, s \in PageStatuses : FetchResolved(c, s) /\ Awaited(c)
    \/ \E c \in Calls : ErrorJsonSettled(c) /\ Awaited(c)
    \/ \E c \in Calls, data \in PageBodies : JsonResolved(c, data) /\ Awaited(c)

SpecPage == Init /\ [][NextPage]_vars

TypeOK ==
    /\ currentUser \in Users \cup {Null}
    /\ cachedToken \in Nat
    /\ tokenExpiry \in Nat
    /\ mounted \in BOOLEAN
    /\ user \in Users \cup {Null}
    /\ loading \in BOOLEAN
    /\ currentIndex \in 0..1
    /\ Len(mediaItems) <= 2
    /\ \A c \in Calls : handler[c].name \in {"", "fetchMediaItems", "handleSwipeLeft",
                                              "handleSwipeUp", "handleSwipeDown"}
    /\ \A c \in Calls : call[c].pc \in {"idle", "getIdTokenResult", "getIdToken",
            "reauthenticateWithPopup", "token", "fetch", "errorJson", "json", "done"}

\* ---------------------------------------------------------------- properties

\* the error kinds of the design (NotAuthenticated, AuthExpired,
\* RemoteRequestFailed, ActionFailed) that the messages thrown stand for
ErrorKind(error) ==
    CASE error = NotAuthenticatedMsg -> "NotAuthenticated"
      [] error \in {TokenFailedMsg, AuthExpiredMsg} -> "AuthExpired"
      [] error \in {FetchFailedWith(status) : status \in Statuses} -> "RemoteRequestFailed"
      [] error \in {ActionFailedMsg(op) : op \in Actions} -> "ActionFailed"
      [] OTHER -> "Other"

\* this step starts a call in slot c
Starts(c) == call[c].pc \in {"idle", "done"} /\ call'[c].pc \notin {"idle", "done"}
\* this step is a step of the call in slot c
Steps(c) == call'[c] # call[c]
\* the awaits inside getAccessToken
InGetAccessToken == {"getIdTokenResult", "getIdToken", "reauthenticateWithPopup"}
\* the call in slot c has a token that getAccessToken acquired for it
Acquired(c) ==
    /\ call[c].pc \notin {"idle"} \cup InGetAccessToken
    /\ call[c].via \in {"getIdToken", "reauthenticateWithPopup"}
    /\ call[c].error # TokenFailedMsg

\* C1: with a session and a cached token that has not expired (now < tokenExpiry),
\* getAccessToken returns the cached token at once: the call stands at no await
\* on the identity provider or the remote, and the cache is left as it is.
C1_CacheHit ==
    [][\A c \in Calls :
          (Starts(c) /\ currentUser # Null /\ cachedToken # Null /\ tokenExpiry # Null
                     /\ now < tokenExpiry)
          => /\ call'[c].pc = "token"
             /\ call'[c].via = "cache"
             /\ call'[c].token = cachedToken
             /\ call'[c].error = NoError
             /\ call'[c].request = NoRequest
             /\ cachedToken' = cachedToken
             /\ tokenExpiry' = tokenExpiry]_vars

\* C1 witness: a call that got its token from the cache, later than the token
\* was cached and before its window ends
C1_Witness ==
    \E c \in Calls :
        /\ call[c].pc = "token"
        /\ call[c].via = "cache"
        /\ call[c].user # Null
        /\ call[c].token = cachedToken
        /\ now > 0
        /\ now < tokenExpiry

\* C2: with a session and a cached token whose window has run out (now >= tokenExpiry,
\* the instant now = tokenExpiry included), getAccessToken does not return from
\* the cache check: it calls getIdTokenResult(true), the silent retrieval.
C2_ExpiredReacquires ==
    [][\A c \in Calls :
          (Starts(c) /\ currentUser # Null /\ cachedToken # Null /\ tokenExpiry # Null
                     /\ now >= tokenExpiry)
          => /\ call'[c].pc = "getIdTokenResult"
             /\ call'[c].via = "getIdTokenResult"
             /\ call'[c].token = Null]_vars

\* C2 witness: a call in silent retrieval although a token is cached, at the very
\* instant the token expires
C2_Witness ==
    \E c \in Calls :
        /\ call[c].pc = "getIdTokenResult"
        /\ cachedToken # Null
        /\ now = tokenExpiry

\* C3: a 401 answer to listMediaItems rejects the call with AuthExpired and
\* leaves cachedToken and tokenExpiry null; and a getAccessToken that finds the
\* cache empty goes to silent retrieval, whatever the time.
C3_List401ClearsCache ==
    /\ [][\A c \in Calls :
            (call[c].pc = "fetch" /\ call[c].op = "list" /\ Steps(c) /\ call'[c].status = 401)
            => /\ cachedToken' = Null
               /\ tokenExpiry' = Null
               /\ call'[c].pc = "done"
               /\ ErrorKind(call'[c].error) = "AuthExpired"]_vars
    /\ [][\A c \in Calls :
            (Starts(c) /\ currentUser # Null /\ cachedToken = Null)
            => /\ call'[c].pc = "getIdTokenResult"
               /\ call'[c].via # "cache"]_vars

\* C3 witness: one call rejected by a 401 on a token it had acquired; the cache is
\* empty and the next call is in silent retrieval before that token's window ends
C3_Witness ==
    \E c, d \in Calls :
        /\ call[c].pc = "done"
        /\ call[c].op = "list"
        /\ call[c].status = 401
        /\ call[c].via # "cache"
        /\ call[d].pc = "getIdTokenResult"
        /\ cachedToken = Null
        /\ now > 0
        /\ now < TOKEN_TTL

\* C4: a call of listMediaItems, favoriteMediaItem, archiveMediaItem or
\* deleteMediaItem whose getAccessToken yields no token issues no request and is
\* rejected with the error of getAccessToken: NotAuthenticated without a
\* session, AuthExpired when the acquisition failed; never RemoteRequestFailed
\* or ActionFailed.
C4_TokenFailurePropagates ==
    \A c \in Calls :
        /\ (call[c].request # NoRequest \/ call[c].status # Null) => Truthy(call[c].token)
        /\ (call[c].pc = "done" /\ ~Truthy(call[c].token))
           => /\ call[c].request = NoRequest
              /\ call[c].status = Null
              /\ ErrorKind(call[c].error) =
                   IF call[c].user = Null THEN "NotAuthenticated" ELSE "AuthExpired"

\* C4 witness: a mutation rejected because the acquisition of its token failed
C4_Witness ==
    \E c \in Calls :
        /\ call[c].pc = "done"
        /\ call[c].op \in Actions
        /\ call[c].user # Null
        /\ call[c].token = Null
        /\ call[c].error = TokenFailedMsg

\* C5: getAccessToken returns from the cache only a token that was acquired for
\* the session of the caller: a token cached under one session is not handed to
\* a later session.
C5_NoTokenAcrossSessions ==
    \A c \in Calls :
        call[c].via = "cache" => TokenUser(call[c].token) = call[c].user

\* C6: getAccessToken fails with 'Failed to get access token' (AuthExpired) only
\* after reauthenticateWithPopup, the interactive re-authentication, was called;
\* a failure of the silent retrieval alone does not reject the call.
C6_InteractiveBeforeFailure ==
    \A c \in Calls :
        call[c].error = TokenFailedMsg => call[c].via = "reauthenticateWithPopup"

\* C7: the step in which getAccessToken acquires a token, by getIdToken or by
\* reauthenticateWithPopup, leaves the cache holding the token it returns with
\* tokenExpiry = Date.now() + TOKEN_TTL; every other step of getAccessToken, its
\* failure included, leaves cachedToken and tokenExpiry as they are.
C7_AcquisitionCachesForOneHour ==
    [][\A c \in Calls :
          (call[c].pc \in InGetAccessToken /\ Steps(c))
          => IF call'[c].pc = "token" /\ call'[c].error = NoError
             THEN /\ Truthy(call'[c].token)
                  /\ cachedToken' = call'[c].token
                  /\ tokenExpiry' = now + TOKEN_TTL
             ELSE /\ cachedToken' = cachedToken
                  /\ tokenExpiry' = tokenExpiry
                  /\ call'[c].token = Null]_vars

\* C7 witness: a token acquired by the interactive path some time after the
\* start, cached with the window counted from then
C7_Witness ==
    \E c \in Calls :
        /\ call[c].pc = "token"
        /\ call[c].via = "reauthenticateWithPopup"
        /\ call[c].error = NoError
        /\ cachedToken = call[c].token
        /\ now > 0
        /\ tokenExpiry = now + TOKEN_TTL

\* C8: under every interleaving of two calls, the cache changes only by one call
\* writing both fields in one step, the token that call returns and its own
\* Date.now() + TOKEN_TTL, or by a 401 clearing both; so the last writer's token
\* and expiry stand together, and when both calls have acquired a token the
\* cached token is the token of one of them.
C8_LastWriterWins ==
    /\ [][(cachedToken' # cachedToken \/ tokenExpiry' # tokenExpiry)
            => \E c \in Calls :
                 /\ Steps(c)
                 /\ \/ /\ call[c].pc \in InGetAccessToken
                       /\ call'[c].pc = "token"
                       /\ cachedToken' = call'[c].token
                       /\ tokenExpiry' = now + TOKEN_TTL
                    \/ /\ call'[c].status = 401
                       /\ cachedToken' = Null
                       /\ tokenExpiry' = Null]_vars
    /\ []((cachedToken # Null /\ \A c \in Calls : Acquired(c))
            => /\ \E c \in Calls : call[c].token = cachedToken
               /\ tokenExpiry # Null)

\* C8 witness: both calls went through interactive re-authentication, each has
\* its own token, and the cache holds the token of one of them with the expiry
\* that its write set
C8_Witness ==
    /\ \A c \in Calls : Acquired(c) /\ call[c].via = "reauthenticateWithPopup"
    /\ call[1].token # call[2].token
    /\ cachedToken = call[1].token
    /\ tokenExpiry = now + TOKEN_TTL
    /\ now > 0

\* the library with the flag `field` of item i set and nothing else changed
WithFlag(r, i, field) ==
    [j \in Ids |-> [f \in {"favorite", "archive", "removed"} |->
        IF j = i /\ f = field THEN TRUE ELSE r[j][f]]]

C10_FlagIdempotent ==
    [][\A c \in Calls :
          (call[c].pc = "fetch" /\ call[c].op \in {"favorite", "archive"} /\ Steps(c)
                                /\ Ok(call'[c].status))
          => /\ remote' = WithFlag(remote, call[c].mediaItemId, call[c].op)
             /\ (remote[call[c].mediaItemId][call[c].op] => remote' = remote)
             /\ call'[c].pc = "done"
             /\ call'[c].error = NoError]_vars

\* C10 witness: archive of item "a" in flight with a token from the cache while
\* the archive flag of "a" is set already, by the call before, and nothing else is
C10_Witness ==
    \E c \in Calls :
        /\ starts = 2
        /\ call[c].pc = "fetch"
        /\ call[c].op = "archive"
        /\ call[c].mediaItemId = "a"
        /\ call[c].via = "cache"
        /\ remote["a"] = [favorite |-> FALSE, archive |-> TRUE, removed |-> FALSE]
        /\ remote["b"] = [favorite |-> FALSE, archive |-> FALSE, removed |-> FALSE]

\* the rejections of the design's taxonomy
DesignKinds == {"NotAuthenticated", "AuthExpired", "RemoteRequestFailed", "ActionFailed"}

\* C11, as claimed: every rejection of a service function is one of the four
\* error kinds of the design, whatever the remote call came to.
C11_EveryRejectionIsADesignKind ==
    \A c \in Calls :
        (call[c].pc = "done" /\ call[c].error # NoError)
        => ErrorKind(call[c].error) \in DesignKinds

\* C11, amended: a rejected mutation is NotAuthenticated, AuthExpired or
\* ActionFailed whatever the remote call came to, a network failure included;
\* a rejected listMediaItems is NotAuthenticated, AuthExpired or
\* RemoteRequestFailed when no request was made or the remote answered with a
\* failure status, and is the error of fetch or of response.json() itself,
\* rethrown as it is, when fetch throws or the success body cannot be read.
C11_RejectionKinds ==
    \A c \in Calls :
        (call[c].pc = "done" /\ call[c].error # NoError)
        => IF call[c].op \in Actions
           THEN ErrorKind(call[c].error) \in {"NotAuthenticated", "AuthExpired", "ActionFailed"}
           ELSE IF call[c].request = NoRequest
           THEN ErrorKind(call[c].error) \in {"NotAuthenticated", "AuthExpired"}
           ELSE IF call[c].status = Null
           THEN call[c].error = NetworkErrorMsg
           ELSE IF Ok(call[c].status)
           THEN call[c].error = BodyErrorMsg
           ELSE ErrorKind(call[c].error) \in {"AuthExpired", "RemoteRequestFailed"}

\* C11 witness: a mutation whose fetch threw, rejected with ActionFailed
C11_Witness ==
    \E c \in Calls :
        /\ call[c].pc = "done"
        /\ call[c].op \in Actions
        /\ call[c].request # NoRequest
        /\ call[c].status = Null
        /\ ErrorKind(call[c].error) = "ActionFailed"

\* C12: once the remote has answered 401 to a call, of listMediaItems or of a
\* mutation, the cache is empty (so that the next getAccessToken re-acquires).
\* Calls do not overlap here: nothing writes the cache while the answered call
\* is still there.
C12_Any401ClearsCache ==
    \A c \in Calls :
        call[c].status = 401 => (cachedToken = Null /\ tokenExpiry = Null)

\* C13: a call that got its token from the cache issues one request: it goes
\* from the settled getAccessToken straight to fetch, with no step of
\* re-authentication, and the request carries the cached token as bearer and
\* names the given item and no other; and no call, whatever its outcome, issues
\* a second request.
C13_OneRequestWithCachedToken ==
    /\ [][\A c \in Calls :
            (call[c].pc = "token" /\ call[c].via = "cache" /\ Steps(c))
            => /\ call'[c].pc = "fetch"
               /\ call'[c].via = "cache"
               /\ call'[c].request.bearer = cachedToken
               /\ call'[c].request.bearer = call[c].token
               /\ call'[c].request.mediaItemId = call[c].mediaItemId
               /\ call'[c].request.mediaItemIds =
                    IF call[c].op \in {"favorite", "archive"}
                    THEN {call[c].mediaItemId} ELSE {}]_vars
    /\ [][\A c \in Calls :
            (call[c].request # NoRequest /\ Steps(c) /\ ~Starts(c))
            => /\ call'[c].request = call[c].request
               /\ call'[c].pc \in {"errorJson", "json", "done"}
               /\ call[c].pc = "fetch" \/ call'[c].pc = "done"]_vars

\* C13 witness: favorite of item "b" answered, its one request carrying the
\* cached token
C13_Witness ==
    \E c \in Calls :
        /\ call[c].pc = "done"
        /\ call[c].op = "favorite"
        /\ call[c].mediaItemId = "b"
        /\ call[c].via = "cache"
        /\ call[c].status # Null
        /\ call[c].request.bearer = cachedToken
        /\ call[c].request.mediaItemIds = {"b"}

\* C14: a failure status other than 401 rejects listMediaItems with
\* RemoteRequestFailed, the status being the one the remote sent, and no step
\* of that call from the response on touches cachedToken or tokenExpiry.
C14_ListFailureKeepsCache ==
    /\ [](\A c \in Calls :
            (call[c].op = "list" /\ call[c].pc = "done" /\ call[c].status # Null
                /\ ~Ok(call[c].status) /\ call[c].status # 401)
            => /\ ErrorKind(call[c].error) = "RemoteRequestFailed"
               /\ call[c].error = FetchFailedWith(call[c].status))
    /\ [][\A c \in Calls :
            (call'[c].op = "list" /\ Steps(c) /\ call'[c].status # Null
                /\ ~Ok(call'[c].status) /\ call'[c].status # 401)
            => /\ cachedToken' = cachedToken
               /\ tokenExpiry' = tokenExpiry
               /\ call[c].pc = "errorJson" => call'[c].status = call[c].status]_vars

\* C14 witness: listMediaItems rejected on a 500 while the token it used is
\* still cached and has not expired
C14_Witness ==
    \E c \in Calls :
        /\ call[c].pc = "done"
        /\ call[c].op = "list"
        /\ call[c].status = 500
        /\ call[c].error = FetchFailedWith(500)
        /\ cachedToken = call[c].token
        /\ now < tokenExpiry

\* C20: cachedToken and tokenExpiry are both null or both set, and a set
\* tokenExpiry is at most Date.now() + TOKEN_TTL, under every interleaving of
\* two calls and of the 401 clears.
C20_CacheFieldsAgree ==
    /\ (cachedToken = Null) = (tokenExpiry = Null)
    /\ cachedToken # Null => Truthy(cachedToken)
    /\ tokenExpiry # Null => (tokenExpiry > 0 /\ tokenExpiry <= now + TOKEN_TTL)

\* C20 witness: the cache filled again by one call after a 401 on the other
\* cleared it
C20_Witness ==
    \E c, d \in Calls :
        /\ call[c].pc = "done"
        /\ call[c].status = 401
        /\ Acquired(d)
        /\ cachedToken = call[d].token
        /\ tokenExpiry = now + TOKEN_TTL

\* C15: a resolved listMediaItems returns the empty sequence when the body has
\* no mediaItems or an empty one; otherwise one item per remote item, in the
\* remote order, each with the id of the remote item and with its baseUrl
\* followed by "=w1024-h1024".
C15_ListResult ==
    \A c \in Calls :
        (call[c].op = "list" /\ call[c].pc = "done" /\ call[c].error = NoError)
        => LET items == call[c].body.mediaItems
               result == call[c].result
           IN  /\ Ok(call[c].status)
               /\ (~call[c].body.has \/ items = <<>>) => result = <<>>
               /\ call[c].body.has =>
                    /\ Len(result) = Len(items)
                    /\ \A k \in 1..Len(items) :
                        /\ result[k].id = items[k].id
                        /\ result[k].baseUrl = items[k].baseUrl \o "=w1024-h1024"

\* C15 witness: the remote listed "b" then "a", and so does the result
C15_Witness ==
    \E c \in Calls :
        /\ call[c].op = "list"
        /\ call[c].pc = "done"
        /\ call[c].error = NoError
        /\ call[c].body.has
        /\ Len(call[c].body.mediaItems) = 2
        /\ call[c].result[1].id = "b"
        /\ call[c].result[2].id = "a"
        /\ call[c].result[1].baseUrl = "https://lh3.googleusercontent.com/b=w1024-h1024"

\* C15 witness, empty case: a body without mediaItems resolved to no items
C15_WitnessEmpty ==
    \E c \in Calls :
        /\ call[c].op = "list"
        /\ call[c].pc = "done"
        /\ call[c].error = NoError
        /\ call[c].status = 200
        /\ ~call[c].body.has
        /\ call[c].result = <<>>

\* the gesture handlers that call the remote
Gestures == {"handleSwipeLeft", "handleSwipeUp", "handleSwipeDown"}

\* C16, first half: loading is true whenever a call of the page (a gesture's or
\* the effect's list fetch) is in flight.
C16_LoadingWhileInFlight ==
    \A c \in Calls : InFlight(c) => loading

\* C16, second half: no gesture starts its call while another call of the page
\* is in flight.
C16_NoGestureDuringCall ==
    [][\A c \in Calls :
        (~InFlight(c) /\ handler'[c].name \in Gestures)
        => \A d \in Calls : ~InFlight(d)]_vars

\* C16: the page serializes its remote calls through loading: loading is true
\* whenever one is in flight, and no gesture starts while one is in flight.
C16_LoadingSerializes ==
    /\ []C16_LoadingWhileInFlight
    /\ C16_NoGestureDuringCall

\* C17: when a delete resolves, the local list loses exactly the item whose id
\* the request named and keeps the others in order, whatever happened to the
\* list or the cursor meanwhile; a rejected delete and any favorite or archive
\* leave the list and the cursor as they are.
C17_DeleteRemovesTheSentItem ==
    [][\A c \in Calls :
        (InFlight(c) /\ handler'[c] = NoHandler /\ handler[c].name \in Gestures)
        => IF handler[c].name = "handleSwipeLeft" /\ call'[c].error = NoError
           THEN mediaItems' = SelectSeq(mediaItems,
                                LAMBDA m : m.id # call'[c].request.mediaItemId)
           ELSE mediaItems' = mediaItems /\ currentIndex' = currentIndex]_vars

\* C18: currentIndex never decreases; it changes only by a swipe right, which
\* adds exactly 1 when currentIndex < length - 1 and leaves it at the last
\* item; no step of a call, of the effect or of another gesture changes it.
C18_CursorOnlyForward ==
    [][/\ currentIndex' >= currentIndex
       /\ currentIndex' # currentIndex
            => /\ currentIndex' = currentIndex + 1
               /\ currentIndex < Len(mediaItems) - 1
               /\ CardRendered
               /\ UNCHANGED <<mounted, user, mediaItems, loading, handler>>
               /\ UNCHANGED serviceVars
       /\ handleSwipeRight
            => currentIndex' = IF currentIndex < Len(mediaItems) - 1
                               THEN currentIndex + 1 ELSE currentIndex]_vars

\* C18 witness: after a swipe right the second of two items was favorited, and
\* the cursor is still on it
C18_Witness ==
    /\ currentIndex = 1
    /\ Len(mediaItems) = 2
    /\ ~loading
    /\ \E c \in Calls :
        /\ call[c].op = "favorite"
        /\ call[c].pc = "done"
        /\ call[c].error = NoError
        /\ call[c].mediaItemId = mediaItems[2].id

\* C19: whenever the local list is not empty the cursor is on one of its items
\* (so that the page with a user and without loading shows a photo).
C19_CursorInsideList ==
    Len(mediaItems) > 0 => (0 <= currentIndex /\ currentIndex < Len(mediaItems))

====
